---- MODULE Spec2Model ----
(***************************************************************************)
(* Model of blob-cli: Shamir's Secret Sharing over bytes (src/blob.py) and *)
(* the command loop around it (src/blob-cli.py).                           *)
(*                                                                         *)
(* Values of the program are modelled as follows.                          *)
(*   - a point is a pair <<x, y>>, a share a sequence of points, a share   *)
(*     set a sequence of shares;                                           *)
(*   - a str / bytes value is a sequence of code points / byte values;     *)
(*   - a text token is a sequence of one-character strings;                *)
(*   - a call that can raise returns a record [ok, val, err]: Ok(v) for a  *)
(*     normal return of v, Raise(e) for an exception of kind e.            *)
(***************************************************************************)
EXTENDS Integers, Sequences, FiniteSets, TLC

VARIABLES
    pc,         \* position of the scenario being run
    secret,     \* encode_secret: the secret (sequence of code points)
    n,          \* encode_secret: number of shares
    k,          \* encode_secret: threshold
    shares,     \* encode_secret: its result
    picked,     \* decode_secret: the shares supplied
    decoded,    \* decode_secret: its result
    share,      \* share_to_str: the share supplied
    serialized, \* share_to_str: its result
    token,      \* str_to_share: the text supplied
    parsed,     \* str_to_share: its result
    tokens,     \* recovery pipeline: the text tokens collected
    valid,      \* validate_shares: its result
    byte,       \* split_secret: the secret byte
    coeffs,     \* split_secret: the random coefficients drawn
    points,     \* split_secret: its result
    mode,       \* BlobCLI: where the command loop is
    line,       \* BlobCLI: the last line read
    cli_shares, \* BlobCLI.handle_recover: the local list `shares`
    out         \* BlobCLI: the last message printed

vars == <<pc, secret, n, k, shares, picked, decoded, share, serialized, token, parsed,
          tokens, valid, byte, coeffs, points, mode, line, cli_shares, out>>

serialVars == <<share, serialized, token, parsed>>
recoverVars == <<tokens, valid>>
splitVars == <<byte, coeffs, points>>
cliVars    == <<mode, line, cli_shares, out>>

-----------------------------------------------------------------------------
(* Bounds of the model *)

MaxLen == 2     \* longest secret / share, in bytes
MaxN == 3       \* largest number of shares n (and threshold k) explored
MaxDraws == 4   \* most random coefficients drawn by one encode_secret call
MaxPayload == 4 \* longest text after the x part of a hand-made token
MaxShares == 3  \* most share texts collected for one recovery
MaxSecrecyK == 2 \* largest threshold whose coefficient choices are counted

(* Program constants *)

PRIME == 257

-----------------------------------------------------------------------------
(* Results of calls *)

Ok(v) == [ok |-> TRUE, val |-> v, err |-> ""]
Raise(e) == [ok |-> FALSE, val |-> <<>>, err |-> e]
NotCalled == [ok |-> FALSE, val |-> <<>>, err |-> "not called"]

\* what the CLI printed last: a message and the lines under it
Printed(m, b) == [msg |-> m, body |-> b]

Range(s) == {s[i] : i \in DOMAIN s}

\* all sequences over S of length 0..len
SeqUpTo(S, len) == UNION {[1..m -> S] : m \in 0..len}

-----------------------------------------------------------------------------
(* Field arithmetic and polynomials: src/blob.py *)

\* pow(x, i, p) for i >= 0
RECURSIVE pow(_, _, _)
pow(x, i, p) == IF i = 0 THEN 1 % p ELSE (x * pow(x, i - 1, p)) % p

\* pow(a, -1, p): the inverse in [1, p), or ValueError when a has none
modinv(a, p) ==
    IF \E b \in 1..(p - 1) : (a * b) % p = 1
    THEN Ok(CHOOSE b \in 1..(p - 1) : (a * b) % p = 1)
    ELSE Raise("ValueError: base is not invertible")

RECURSIVE SumSeq(_)
SumSeq(s) == IF s = <<>> THEN 0 ELSE Head(s) + SumSeq(Tail(s))

\* coeffs[i+1] is the coefficient of x^i (Python's enumerate is 0-based)
eval_poly(cs, x, p) ==
    SumSeq([i \in 1..Len(cs) |-> cs[i] * pow(x, i - 1, p)]) % p

HasDuplicates(xs) == Cardinality(Range(xs)) # Len(xs)

\* the inner loop of lagrange_interp for one i, from index j on, li so far
RECURSIVE LagrangeLi(_, _, _, _, _)
LagrangeLi(xs, i, j, li, p) ==
    IF j > Len(xs) THEN Ok(li)
    ELSE IF i = j THEN LagrangeLi(xs, i, j + 1, li, p)
    ELSE LET inv == modinv(xs[i] - xs[j], p)
         IN  IF ~inv.ok THEN inv
             ELSE LagrangeLi(xs, i, j + 1, (li * (-xs[j]) * inv.val) % p, p)

\* the outer loop of lagrange_interp, from index i on, total so far
RECURSIVE LagrangeTotal(_, _, _, _, _)
LagrangeTotal(xs, ys, i, total, p) ==
    IF i > Len(xs) THEN Ok(total)
    ELSE LET li == LagrangeLi(xs, i, 1, 1, p)
         IN  IF ~li.ok THEN li
             ELSE LagrangeTotal(xs, ys, i + 1, (total + ys[i] * li.val) % p, p)

\* lagrange_interp with the outer loop starting at the second point
lagrange_interp_skip_first(xs, ys, p) ==
    IF HasDuplicates(xs)
    THEN Raise("ValueError: Duplicate x values in shares.")
    ELSE LagrangeTotal(xs, ys, 2, 0, p)

lagrange_interp(xs, ys, p) ==
    IF HasDuplicates(xs)
    THEN Raise("ValueError: Duplicate x values in shares.")
    ELSE LagrangeTotal(xs, ys, 1, 0, p)

\* secrets.randbelow(p) never returning p - 1
RandBelow_short(p) == 0..(p - 2)

\* the values secrets.randbelow(p) can return
RandBelow(p) == 0..(p - 1)

\* split_secret evaluating at range(n) instead of range(1, n + 1)
split_secret_from_zero(b, nn, rnd) ==
    LET cs == <<b>> \o rnd
    IN  [i \in 1..nn |-> <<i - 1, eval_poly(cs, i - 1, PRIME)>>]

\* split_secret with the k-1 values of secrets.randbelow(PRIME) given as rnd;
\* range(k - 1) is empty for k <= 1
split_secret(b, nn, rnd) ==
    LET cs == <<b>> \o rnd
    IN  [i \in 1..nn |-> <<i, eval_poly(cs, i, PRIME)>>]

\* zip(*shares) fails on an empty argument list; recover_secret is only
\* called by decode_secret with one point per supplied share
recover_secret(pts) ==
    lagrange_interp([i \in 1..Len(pts) |-> pts[i][1]],
                    [i \in 1..Len(pts) |-> pts[i][2]], PRIME)

IsAscii(s) == \A i \in DOMAIN s : s[i] \in 0..127

\* encode_secret with the random draws of every byte given as rnds:
\* rnds[j] are the draws of split_secret for byte j
encode_secret(s, nn, rnds) ==
    IF ~IsAscii(s) THEN Raise("ValueError: Only ASCII secrets supported.")
    ELSE Ok([i \in 1..(IF nn < 0 THEN 0 ELSE nn) |->
                [j \in 1..Len(s) |-> split_secret(s[j], nn, rnds[j])[i]]])

\* the number of continuation bytes the lead byte b announces, -1 if b cannot
\* start a UTF-8 sequence
Utf8Extra(b) ==
    IF b <= 127 THEN 0
    ELSE IF b >= 194 /\ b <= 223 THEN 1
    ELSE IF b >= 224 /\ b <= 239 THEN 2
    ELSE IF b >= 240 /\ b <= 244 THEN 3
    ELSE -1

\* the values the first continuation byte may take after lead byte b
Utf8Second(b) ==
    IF b = 224 THEN 160..191
    ELSE IF b = 237 THEN 128..159
    ELSE IF b = 240 THEN 144..191
    ELSE IF b = 244 THEN 128..143
    ELSE 128..191

\* the payload bits of lead byte b of a sequence with e continuation bytes
Utf8LeadBits(b, e) ==
    IF e = 0 THEN b ELSE IF e = 1 THEN b % 32 ELSE IF e = 2 THEN b % 16 ELSE b % 8

RECURSIVE Utf8Tail(_, _, _, _)
Utf8Tail(bs, i, e, acc) ==
    IF e = 0 THEN acc ELSE Utf8Tail(bs, i + 1, e - 1, (acc * 64) + (bs[i] % 64))

\* bytes.decode(): strict UTF-8, from byte i on, code points so far in acc
RECURSIVE Utf8Decode(_, _, _)
Utf8Decode(bs, i, acc) ==
    IF i > Len(bs) THEN Ok(acc)
    ELSE LET b == bs[i]
             e == Utf8Extra(b)
         IN  IF e = -1 \/ i + e > Len(bs)
                THEN Raise("UnicodeDecodeError")
             ELSE IF e >= 1 /\ bs[i + 1] \notin Utf8Second(b)
                THEN Raise("UnicodeDecodeError")
             ELSE IF \E j \in (i + 2)..(i + e) : bs[j] \notin 128..191
                THEN Raise("UnicodeDecodeError")
             ELSE Utf8Decode(bs, i + e + 1,
                             Append(acc, Utf8Tail(bs, i + 1, e, Utf8LeadBits(b, e))))

\* the length of zip(*shs): the shortest share, 0 when no share is given
ZipLen(shs) ==
    IF shs = <<>> THEN 0
    ELSE CHOOSE m \in {Len(shs[i]) : i \in DOMAIN shs} :
            \A i \in DOMAIN shs : m <= Len(shs[i])

\* bytes(recover_secret(...) for ... in zip(*shares)), from position j on:
\* the generator is consumed in order, each item checked against range(256)
RECURSIVE RecoverBytes(_, _, _)
RecoverBytes(shs, j, acc) ==
    IF j > ZipLen(shs) THEN Ok(acc)
    ELSE LET r == recover_secret([i \in 1..Len(shs) |-> shs[i][j]])
         IN  IF ~r.ok THEN r
             ELSE IF r.val > 255
                THEN Raise("ValueError: bytes must be in range(0, 256)")
             ELSE RecoverBytes(shs, j + 1, Append(acc, r.val))

decode_secret(shs) ==
    LET bs == RecoverBytes(shs, 1, <<>>)
    IN  IF ~bs.ok THEN bs ELSE Utf8Decode(bs.val, 1, <<>>)

-----------------------------------------------------------------------------
(* Share serialization: src/blob.py *)

B64Chars ==
    <<"A", "B", "C", "D", "E", "F", "G", "H", "I", "J", "K", "L", "M",
      "N", "O", "P", "Q", "R", "S", "T", "U", "V", "W", "X", "Y", "Z",
      "a", "b", "c", "d", "e", "f", "g", "h", "i", "j", "k", "l", "m",
      "n", "o", "p", "q", "r", "s", "t", "u", "v", "w", "x", "y", "z",
      "0", "1", "2", "3", "4", "5", "6", "7", "8", "9", "+", "/">>

DigitChars == <<"0", "1", "2", "3", "4", "5", "6", "7", "8", "9">>

\* the ASCII whitespace a token can hold
Whitespace == {" ", "\t", "\n", "\r"}

\* the 0-based position of character c in table t, -1 when it is not there
IndexIn(t, c) ==
    IF \E i \in DOMAIN t : t[i] = c
    THEN (CHOOSE i \in DOMAIN t : t[i] = c) - 1
    ELSE -1

\* base64.b64encode(bs): 3 bytes to 4 characters, '=' padding at the end
RECURSIVE b64encode(_)
b64encode(bs) ==
    IF Len(bs) = 0 THEN <<>>
    ELSE IF Len(bs) = 1 THEN
        <<B64Chars[(bs[1] \div 4) + 1], B64Chars[((bs[1] % 4) * 16) + 1], "=", "=">>
    ELSE IF Len(bs) = 2 THEN
        <<B64Chars[(bs[1] \div 4) + 1],
          B64Chars[((bs[1] % 4) * 16) + (bs[2] \div 16) + 1],
          B64Chars[((bs[2] % 16) * 4) + 1], "=">>
    ELSE
        <<B64Chars[(bs[1] \div 4) + 1],
          B64Chars[((bs[1] % 4) * 16) + (bs[2] \div 16) + 1],
          B64Chars[((bs[2] % 16) * 4) + (bs[3] \div 64) + 1],
          B64Chars[(bs[3] % 64) + 1]>>
        \o b64encode(SubSeq(bs, 4, Len(bs)))

\* binascii.a2b_base64 as base64.b64decode calls it (validate=False), from
\* character i on: characters outside the alphabet are skipped, a '=' ends
\* the input once it completes a quad, a dangling quad is an error
RECURSIVE A2bBase64(_, _, _, _, _, _)
A2bBase64(cs, i, quad_pos, leftchar, pads, bin) ==
    IF i > Len(cs) THEN
        IF quad_pos # 0 THEN Raise("binascii.Error") ELSE Ok(bin)
    ELSE IF cs[i] = "=" THEN
        IF quad_pos >= 2 /\ quad_pos + pads + 1 >= 4 THEN Ok(bin)
        ELSE A2bBase64(cs, i + 1, quad_pos, leftchar,
                       IF quad_pos >= 2 THEN pads + 1 ELSE pads, bin)
    ELSE LET this_ch == IndexIn(B64Chars, cs[i])
         IN  IF this_ch = -1
                THEN A2bBase64(cs, i + 1, quad_pos, leftchar, pads, bin)
             ELSE IF quad_pos = 0
                THEN A2bBase64(cs, i + 1, 1, this_ch, 0, bin)
             ELSE IF quad_pos = 1
                THEN A2bBase64(cs, i + 1, 2, this_ch % 16, 0,
                               Append(bin, (leftchar * 4) + (this_ch \div 16)))
             ELSE IF quad_pos = 2
                THEN A2bBase64(cs, i + 1, 3, this_ch % 4, 0,
                               Append(bin, (leftchar * 16) + (this_ch \div 4)))
             ELSE A2bBase64(cs, i + 1, 0, 0, 0,
                            Append(bin, (leftchar * 64) + this_ch))

b64decode(cs) == A2bBase64(cs, 1, 0, 0, 0, <<>>)

\* the decimal digits of x >= 0, most significant first, no leading zeros
RECURSIVE Digits(_)
Digits(x) ==
    IF x < 10 THEN <<DigitChars[x + 1]>>
    ELSE Append(Digits(x \div 10), DigitChars[(x % 10) + 1])

\* f"{x}" of an int
IntToStr(x) == IF x < 0 THEN <<"-">> \o Digits(-x) ELSE Digits(x)

\* str.strip(): leading and trailing whitespace removed
RECURSIVE LStrip(_)
LStrip(cs) ==
    IF cs # <<>> /\ Head(cs) \in Whitespace THEN LStrip(Tail(cs)) ELSE cs

RECURSIVE RStrip(_)
RStrip(cs) ==
    IF cs # <<>> /\ cs[Len(cs)] \in Whitespace
    THEN RStrip(SubSeq(cs, 1, Len(cs) - 1)) ELSE cs

Strip(cs) == RStrip(LStrip(cs))

\* str.split(":"), the part being read in cur
RECURSIVE SplitColon(_, _)
SplitColon(cs, cur) ==
    IF cs = <<>> THEN <<cur>>
    ELSE IF Head(cs) = ":" THEN <<cur>> \o SplitColon(Tail(cs), <<>>)
    ELSE SplitColon(Tail(cs), Append(cur, Head(cs)))

\* the digits of an int literal after the sign: digits, single underscores
\* allowed between them; acc is the value so far, last the previous character
RECURSIVE ParseDigits(_, _, _)
ParseDigits(cs, acc, last) ==
    IF cs = <<>> THEN
        IF last = "digit" THEN Ok(acc) ELSE Raise("ValueError: invalid literal for int()")
    ELSE IF IndexIn(DigitChars, Head(cs)) # -1 THEN
        ParseDigits(Tail(cs), (acc * 10) + IndexIn(DigitChars, Head(cs)), "digit")
    ELSE IF Head(cs) = "_" /\ last = "digit" THEN
        ParseDigits(Tail(cs), acc, "underscore")
    ELSE Raise("ValueError: invalid literal for int()")

\* int(x_str): whitespace around, an optional sign, then the digits
IntParse(cs) ==
    LET t == Strip(cs)
    IN  IF t # <<>> /\ Head(t) = "-" THEN
            LET r == ParseDigits(Tail(t), 0, "sign")
            IN  IF r.ok THEN Ok(-r.val) ELSE r
        ELSE IF t # <<>> /\ Head(t) = "+" THEN ParseDigits(Tail(t), 0, "sign")
        ELSE ParseDigits(t, 0, "start")

\* y.to_bytes(1, 'big') of the low byte
ToBytes2_one_byte(y) ==
    IF y < 0 \/ y > 65535 THEN Raise("OverflowError")
    ELSE Ok(<<y % 256>>)

\* y.to_bytes(2, 'big')
ToBytes2(y) ==
    IF y < 0 \/ y > 65535 THEN Raise("OverflowError")
    ELSE Ok(<<y \div 256, y % 256>>)

\* b''.join(y.to_bytes(2, 'big') for _, y in share), from point i on
RECURSIVE YBytes(_, _, _)
YBytes(sh, i, acc) ==
    IF i > Len(sh) THEN Ok(acc)
    ELSE LET b == ToBytes2(sh[i][2])
         IN  IF ~b.ok THEN b ELSE YBytes(sh, i + 1, acc \o b.val)

share_to_str(sh) ==
    IF sh = <<>> THEN Raise("IndexError: list index out of range")
    ELSE LET y_bytes == YBytes(sh, 1, <<>>)
         IN  IF ~y_bytes.ok THEN y_bytes
             ELSE Ok(IntToStr(sh[1][1]) \o <<":">> \o b64encode(y_bytes.val))

\* None, the value str_to_share returns from its except clause
None == [ok |-> FALSE, val |-> <<>>, err |-> "None"]

\* the bounds check of str_to_share accepting x = 0
OutOfRange_allow_zero(x, y) ==
    x < 0 \/ \E i \in DOMAIN y : ~(0 <= y[i] /\ y[i] < PRIME)

\* x <= 0 or any(not (0 <= v < PRIME) for v in y)
OutOfRange(x, y) ==
    x <= 0 \/ \E i \in DOMAIN y : ~(0 <= y[i] /\ y[i] < PRIME)

\* the try block of str_to_share: the list it returns or the exception raised
StrToShareTry(s) ==
    LET parts == SplitColon(Strip(s), <<>>)
    IN  IF Len(parts) # 2 THEN Raise("ValueError: unpack")
        ELSE LET x == IntParse(parts[1])
                 y_bytes == b64decode(parts[2])
             IN  IF ~x.ok THEN x
                 ELSE IF ~y_bytes.ok THEN y_bytes
                 ELSE IF Len(y_bytes.val) % 2 # 0
                    THEN Raise("ValueError: Corrupted share encoding.")
                 ELSE LET y == [i \in 1..(Len(y_bytes.val) \div 2) |->
                                   (y_bytes.val[(2 * i) - 1] * 256) + y_bytes.val[2 * i]]
                      IN  IF OutOfRange(x.val, y)
                             THEN Raise("ValueError")
                          ELSE Ok([i \in DOMAIN y |-> <<x.val, y[i]>>])

\* every exception the try block can raise is an Exception, so the except
\* clause turns it into None
str_to_share(s) ==
    LET r == StrToShareTry(s)
    IN  IF r.ok THEN r ELSE None

-----------------------------------------------------------------------------
(* Share validation: src/blob.py *)

\* validate_shares: the pair it returns, or IndexError from s[0][0] when the
\* shares are all empty
validate_shares(shs) ==
    IF Len(shs) < 2 THEN Ok(<<FALSE, "At least 2 shares needed.">>)
    ELSE IF Cardinality({Len(shs[i]) : i \in DOMAIN shs}) # 1
        THEN Ok(<<FALSE, "Shares length mismatch.">>)
    ELSE IF \E i \in DOMAIN shs : shs[i] = <<>>
        THEN Raise("IndexError: list index out of range")
    ELSE IF HasDuplicates([i \in DOMAIN shs |-> shs[i][1][1]])
        THEN Ok(<<FALSE, "Duplicate share indices.">>)
    ELSE Ok(<<TRUE, "">>)

-----------------------------------------------------------------------------
(* Inputs of the scenarios *)

\* code points a secret is made of: NUL, 'H', 'i', DEL and the non-ASCII 'e acute'
SecretChars == {0, 72, 105, 127, 233}

Secrets == SeqUpTo(SecretChars, MaxLen)

\* values secrets.randbelow(PRIME) returns: the ends and the middle of [0, PRIME)
RandVals == {0, 1, 128, PRIME - 1} \cap RandBelow(PRIME)

\* the number of draws of encode_secret(s, nn, kk)
Draws(s, kk) == Len(s) * (IF kk >= 1 THEN kk - 1 ELSE 0)

\* the subsequence of s at the indices in S, in increasing order
RECURSIVE SelectFrom(_, _, _)
SelectFrom(s, S, i) ==
    IF i > Len(s) THEN <<>>
    ELSE (IF i \in S THEN <<s[i]>> ELSE <<>>) \o SelectFrom(s, S, i + 1)

CodecIdle ==
    /\ secret = <<>> /\ n = 0 /\ k = 0
    /\ shares = NotCalled /\ picked = <<>> /\ decoded = NotCalled
SerialIdle ==
    share = <<>> /\ serialized = NotCalled /\ token = <<>> /\ parsed = NotCalled
RecoverIdle == tokens = <<>> /\ valid = NotCalled
SplitIdle == byte = 0 /\ coeffs = <<>> /\ points = <<>>
CliIdle == mode = "off" /\ line = <<>> /\ cli_shares = <<>> /\ out = Printed("", <<>>)

-----------------------------------------------------------------------------
(* Scenario: a caller of the library runs encode_secret(secret, n, k) and  *)
(* hands some of the shares it returned to decode_secret.                  *)

InitCodec ==
    /\ pc = "encode"
    /\ secret \in Secrets
    /\ n \in 0..MaxN
    /\ k \in 0..MaxN
    /\ Draws(secret, k) <= MaxDraws
    /\ shares = NotCalled /\ picked = <<>> /\ decoded = NotCalled
    /\ coeffs = <<>>
    /\ byte = 0 /\ points = <<>>
    /\ SerialIdle /\ RecoverIdle /\ CliIdle

\* shares = encode_secret(secret, n, k); coeffs records the draws
Encode ==
    /\ pc = "encode"
    /\ \E rnds \in [1..Len(secret) -> [1..(IF k >= 1 THEN k - 1 ELSE 0) -> RandVals]] :
          /\ shares' = encode_secret(secret, n, rnds)
          /\ coeffs' = rnds
    /\ pc' = "encoded"
    /\ UNCHANGED <<secret, n, k, picked, decoded, byte, points>>
    /\ UNCHANGED <<serialVars, recoverVars, cliVars>>

\* decoded = decode_secret(picked) for a non-empty choice of the shares
Decode ==
    /\ pc = "encoded"
    /\ shares.ok
    /\ \E S \in (SUBSET (1..Len(shares.val))) \ {{}} :
          /\ picked' = SelectFrom(shares.val, S, 1)
          /\ decoded' = decode_secret(picked')
    /\ pc' = "decoded"
    /\ UNCHANGED <<secret, n, k, shares, coeffs, byte, points>>
    /\ UNCHANGED <<serialVars, recoverVars, cliVars>>

NextCodec == Encode \/ Decode

SpecCodec == InitCodec /\ [][NextCodec]_vars

InRange(nn, kk) == 2 <= nn /\ nn <= PRIME - 1 /\ 2 <= kk /\ kk <= nn

\* C1: round trip. For an ASCII secret and 2 <= k <= n <= 255, whatever the
\* random coefficients, decode_secret of any k of the shares that
\* encode_secret returned is the secret.
C1_RoundTrip ==
    (/\ pc = "decoded"
     /\ IsAscii(secret)
     /\ 2 <= k /\ k <= n /\ n <= 255
     /\ Len(picked) = k)
    => (decoded.ok /\ decoded.val = secret)

\* two bytes split with threshold 2 among 3, non-constant polynomials, and
\* shares 2 and 3 decoded back to the secret
C1_Witness ==
    /\ pc = "decoded"
    /\ Len(secret) = 2 /\ secret[1] # secret[2]
    /\ k = 2 /\ n = 3
    /\ coeffs[1][1] # 0 /\ coeffs[2][1] # 0
    /\ Len(picked) = 2 /\ picked[1][1][1] = 2 /\ picked[2][1][1] = 3
    /\ decoded.ok /\ decoded.val = secret

\* C7: an encode_secret call whose secret is not ASCII, or whose n or k is out
\* of range (not 2 <= n <= P-1 and 2 <= k <= n), fails and yields no shares.
C7_EncodeRejects ==
    (pc # "encode" /\ (~IsAscii(secret) \/ ~InRange(n, k)))
    => (~shares.ok /\ shares.val = <<>>)

\* C8: shape of a split. For an ASCII secret of m bytes and 2 <= k <= n <= P-1,
\* encode_secret returns n shares of m points each, in byte order (point j of
\* share i is the value at i of the polynomial drawn for byte j); every point
\* of share i carries x = i, so the indices lie in [1, P-1], are pairwise
\* distinct and never 0 modulo P; every y lies in [0, P).
C8_SplitShape ==
    (pc # "encode" /\ IsAscii(secret) /\ InRange(n, k))
    => /\ shares.ok
       /\ Len(shares.val) = n
       /\ \A i \in 1..n :
            /\ Len(shares.val[i]) = Len(secret)
            /\ \A j \in 1..Len(secret) :
                 /\ shares.val[i][j][1] = i
                 /\ shares.val[i][j][1] \in 1..(PRIME - 1)
                 /\ shares.val[i][j][1] % PRIME # 0
                 /\ shares.val[i][j][2] \in 0..(PRIME - 1)
                 /\ shares.val[i][j][2] =
                        eval_poly(<<secret[j]>> \o coeffs[j], i, PRIME)
            /\ \A h \in 1..n : \A j \in 1..Len(secret) :
                 h # i => shares.val[h][j][1] # shares.val[i][j][1]

\* "Hi" split among 3 with threshold 3 and top coefficients that are not 0
C8_Witness ==
    /\ pc = "encoded"
    /\ secret = <<72, 105>> /\ n = 3 /\ k = 3
    /\ coeffs[1][2] # 0 /\ coeffs[2][2] # 0
    /\ shares.ok /\ Len(shares.val) = 3

-----------------------------------------------------------------------------
(* Scenario: a caller serializes a share and parses the text back, or      *)
(* parses a text of its own.                                               *)

\* participant indices: one to four decimal digits, around PRIME
ShareXs == {1, 2, 9, 10, 255, 256, 257, 258, 1000}

\* y values: the ends of [0, PRIME) and of the low byte
YSamples == {0, 1, 127, 128, 255, 256}

\* every value of one y, samples of longer shares, and the empty share
YLists == [1..1 -> 0..(PRIME - 1)] \cup SeqUpTo(YSamples, MaxLen)

ShareInputs == {[j \in DOMAIN ys |-> <<x, ys[j]>>] : x \in ShareXs, ys \in YLists}

ValidShare(sh) ==
    \A j \in DOMAIN sh :
        sh[j][1] = sh[1][1] /\ sh[j][1] >= 1 /\ sh[j][2] \in 0..(PRIME - 1)

\* the text before the payload: x parts that are, and are not, positive
\* integers, with and without the separator
XParts ==
    {<<>>, <<"0">>, <<"1">>, <<"3">>, <<"0", "3">>, <<"-", "1">>, <<"+", "3">>,
     <<"x">>, <<" ", "3">>, <<"1", "_", "0">>, <<"3", ".", "0">>,
     <<"2", "5", "8">>}

PayloadChars == {"A", "Q", "E", "=", ":", " "}

TokenInputs ==
    {x \o sep \o p : x \in XParts, sep \in {<<>>, <<":">>},
                     p \in SeqUpTo(PayloadChars, MaxPayload)}

InitSerial ==
    /\ \/ /\ pc = "serialize"
          /\ share \in ShareInputs
          /\ token = <<>>
       \/ /\ pc = "deserialize"
          /\ share = <<>>
          /\ token \in TokenInputs
    /\ serialized = NotCalled
    /\ parsed = NotCalled
    /\ CodecIdle /\ RecoverIdle /\ SplitIdle /\ CliIdle

\* serialized = share_to_str(share); its text is the next thing parsed
Serialize ==
    /\ pc = "serialize"
    /\ serialized' = share_to_str(share)
    /\ IF serialized'.ok
       THEN token' = serialized'.val /\ pc' = "deserialize"
       ELSE token' = token /\ pc' = "raised"
    /\ UNCHANGED <<share, parsed>>
    /\ UNCHANGED <<secret, n, k, shares, picked, decoded>>
    /\ UNCHANGED <<recoverVars, splitVars, cliVars>>

\* parsed = str_to_share(token)
Deserialize ==
    /\ pc = "deserialize"
    /\ parsed' = str_to_share(token)
    /\ pc' = "parsed"
    /\ UNCHANGED <<share, serialized, token>>
    /\ UNCHANGED <<secret, n, k, shares, picked, decoded>>
    /\ UNCHANGED <<recoverVars, splitVars, cliVars>>

NextSerial == Serialize \/ Deserialize

SpecSerial == InitSerial /\ [][NextSerial]_vars

\* C3 as stated: for every valid share, the empty one included,
\* deserialize(serialize(share)) is the share.
C3_RoundTripAnyShare ==
    ((pc = "raised" \/ (pc = "parsed" /\ serialized.ok)) /\ ValidShare(share))
    => (serialized.ok /\ parsed.ok /\ parsed.val = share)

\* C3, amended: for every valid share of at least one point,
\* deserialize(serialize(share)) is the share: same x on every point, same y
\* values in the same order.
C3_RoundTripNonEmpty ==
    ((pc = "raised" \/ (pc = "parsed" /\ serialized.ok))
        /\ ValidShare(share) /\ share # <<>>)
    => (serialized.ok /\ parsed.ok /\ parsed.val = share)

\* a two-point share with a three-digit x and y = 256 came back unchanged
C3_Witness ==
    /\ pc = "parsed" /\ serialized.ok
    /\ share = <<<<258, 256>>, <<258, 1>>>>
    /\ parsed.ok /\ parsed.val = share

\* the first ':' of a text, 0 when there is none
ColonAt(t) ==
    IF \E i \in DOMAIN t : t[i] = ":"
    THEN CHOOSE i \in DOMAIN t : t[i] = ":" /\ \A j \in 1..(i - 1) : t[j] # ":"
    ELSE 0

\* the defects C4 lists, read off the text
TokenDefect(t) ==
    \/ Cardinality({i \in DOMAIN t : t[i] = ":"}) # 1
    \/ LET x == IntParse(SubSeq(t, 1, ColonAt(t) - 1))
           b == b64decode(SubSeq(t, ColonAt(t) + 1, Len(t)))
       IN  \/ ~x.ok
           \/ x.val <= 0
           \/ b.ok /\ Len(b.val) % 2 # 0
           \/ b.ok /\ \E i \in 1..(Len(b.val) \div 2) :
                        (b.val[(2 * i) - 1] * 256) + b.val[2 * i] >= PRIME

\* C4: str_to_share never raises: it returns a share or None; and it returns
\* None whenever the text does not hold exactly one ':', the x part is not a
\* positive integer, the decoded payload has an odd number of bytes, or a
\* decoded 16-bit y is not below P.
C4_DeserializeTotal ==
    (pc = "parsed")
    => /\ parsed.ok \/ parsed = None
       /\ TokenDefect(token) => parsed = None

\* the text "0:AAA=" was parsed and rejected
C4_Witness ==
    /\ pc = "parsed"
    /\ token = <<"0", ":", "A", "A", "A", "=">>
    /\ parsed = None

-----------------------------------------------------------------------------
(* Scenario: a caller collects share texts, parses each with str_to_share, *)
(* and runs validate_shares and decode_secret on the shares it got.        *)

\* x = 1, 2 and 258 (which is 1 modulo PRIME)
RecoverXs == {1, 2, 258}

\* y lists: none, 'A', a lone UTF-8 lead byte, 256, "Hi", and the UTF-8
\* encoding of 'e acute'
RecoverYs == {<<>>, <<65>>, <<200>>, <<256>>, <<72, 105>>, <<195, 169>>}

\* the texts of the shares above; the empty share is written "x:"
RecoverTokens ==
    {IntToStr(x) \o <<":">> \o b64encode(YBytes([j \in DOMAIN ys |-> <<x, ys[j]>>], 1, <<>>).val) :
        x \in RecoverXs, ys \in RecoverYs}

InitRecover ==
    /\ pc = "collect"
    /\ tokens \in SeqUpTo(RecoverTokens, MaxShares)
    /\ picked = <<>>
    /\ valid = NotCalled
    /\ decoded = NotCalled
    /\ secret = <<>> /\ n = 0 /\ k = 0 /\ shares = NotCalled
    /\ SerialIdle /\ SplitIdle /\ CliIdle

\* picked = [str_to_share(t) for t in tokens]; every text here parses
ParseAll ==
    /\ pc = "collect"
    /\ \A i \in DOMAIN tokens : str_to_share(tokens[i]).ok
    /\ picked' = [i \in DOMAIN tokens |-> str_to_share(tokens[i]).val]
    /\ pc' = "collected"
    /\ UNCHANGED <<tokens, valid, decoded, secret, n, k, shares>>
    /\ UNCHANGED <<serialVars, splitVars, cliVars>>

\* valid = validate_shares(picked)
Validate ==
    /\ pc = "collected"
    /\ valid' = validate_shares(picked)
    /\ pc' = "validated"
    /\ UNCHANGED <<tokens, picked, decoded, secret, n, k, shares>>
    /\ UNCHANGED <<serialVars, splitVars, cliVars>>

\* decoded = decode_secret(picked), whatever validate_shares said
DecodeCollected ==
    /\ pc = "validated"
    /\ decoded' = decode_secret(picked)
    /\ pc' = "recovered"
    /\ UNCHANGED <<tokens, picked, valid, secret, n, k, shares>>
    /\ UNCHANGED <<serialVars, splitVars, cliVars>>

NextRecover == ParseAll \/ Validate \/ DecodeCollected

SpecRecover == InitRecover /\ [][NextRecover]_vars

\* C5: validate_shares is total and classifies every list of shares that
\* str_to_share can produce: too few shares below 2, else length mismatch when
\* two shares differ in length, else "Duplicate share indices." when two
\* shares carry the same x, and (True, "") only when there is no defect.
C5_ValidateTotal ==
    (pc \in {"validated", "recovered"})
    => /\ valid.ok
       /\ valid.val =
            IF Len(picked) < 2 THEN <<FALSE, "At least 2 shares needed.">>
            ELSE IF \E i, j \in DOMAIN picked : Len(picked[i]) # Len(picked[j])
                THEN <<FALSE, "Shares length mismatch.">>
            ELSE IF \E i, j \in DOMAIN picked :
                        /\ i # j /\ picked[i] # <<>> /\ picked[j] # <<>>
                        /\ picked[i][1][1] = picked[j][1][1]
                THEN <<FALSE, "Duplicate share indices.">>
            ELSE <<TRUE, "">>

\* the value Lagrange interpolation gives at byte position j of the shares
RecoveredAt(shs, j) == recover_secret([i \in 1..Len(shs) |-> shs[i][j]])

\* C6: decode_secret returns a string only when the interpolation succeeded
\* at every byte position and every recovered value is an ASCII byte (0..127);
\* in every other case it fails.
C6_DecodeOnlyAscii ==
    (pc = "recovered" /\ decoded.ok)
    => \A j \in 1..ZipLen(picked) :
          RecoveredAt(picked, j).ok /\ RecoveredAt(picked, j).val \in 0..127

\* C10: when every share was returned non-empty by str_to_share and
\* validate_shares says ok, no interpolation inside decode_secret fails on a
\* modular inverse: all x_i - x_j of distinct shares are non-zero modulo P.
C10_ValidatedIsInvertible ==
    (/\ pc = "recovered"
     /\ \A i \in DOMAIN picked : picked[i] # <<>>
     /\ valid.ok /\ valid.val[1])
    => /\ decoded.err # "ValueError: base is not invertible"
       /\ \A i, j \in DOMAIN picked :
            i # j => (picked[i][1][1] - picked[j][1][1]) % PRIME # 0

-----------------------------------------------------------------------------
(* Scenario: one byte is split with split_secret(byte, n, k); a coalition  *)
(* T of fewer than k participants looks at the y values it was handed.     *)

\* the bytes split, and the coefficients drawn for them
SecrecyBytes == {0, 1, 72, 127, 128, 255}
SecrecyRands == {0, 1, 2, 64, 128, 200, 255, PRIME - 1} \cap RandBelow(PRIME)

InitSplit ==
    /\ pc = "split_call"
    /\ byte \in SecrecyBytes
    /\ k \in 2..MaxSecrecyK
    /\ n \in k..MaxN
    /\ coeffs = <<>>
    /\ points = <<>>
    /\ secret = <<>> /\ shares = NotCalled /\ picked = <<>> /\ decoded = NotCalled
    /\ SerialIdle /\ RecoverIdle /\ CliIdle

\* points = split_secret(byte, n, k); coeffs records the draws
SplitByte ==
    /\ pc = "split_call"
    /\ \E rnd \in [1..(k - 1) -> SecrecyRands] :
          /\ coeffs' = rnd
          /\ points' = split_secret(byte, n, rnd)
    /\ pc' = "split"
    /\ UNCHANGED <<byte, n, k, secret, shares, picked, decoded>>
    /\ UNCHANGED <<serialVars, recoverVars, cliVars>>

NextSplit == SplitByte

SpecSplit == InitSplit /\ [][NextSplit]_vars

\* the number of coefficient choices with which split_secret(b, n, k) hands
\* the participants in T the y values they hold in this state
Ways(b, T) ==
    Cardinality({c \in [1..(k - 1) -> RandBelow(PRIME)] :
                    \A x \in T : split_secret(b, n, c)[x][2] = points[x][2]})

\* C2: threshold secrecy. For every set T of fewer than k of the indices
\* 1..n, the y values handed to T are produced by the same number of
\* coefficient choices whatever the secret byte: they are as consistent with
\* every other byte as with the one that was split.
C2_ThresholdSecrecy ==
    (pc = "split")
    => \A T \in SUBSET (1..n) :
          Cardinality(T) < k
          => LET ways == Ways(byte, T)
             IN  \A b \in 0..255 : Ways(b, T) = ways

\* 'H' split with threshold 2 among 3: what participant 2 holds is produced
\* by exactly one coefficient choice for 'H', and by one for the byte 0
C2_Witness ==
    /\ pc = "split"
    /\ byte = 72 /\ k = 2 /\ n = 3
    /\ coeffs = <<128>>
    /\ Ways(72, {2}) = 1
    /\ Ways(0, {2}) = 1

-----------------------------------------------------------------------------
(* The command loop: src/blob-cli.py.  Each action is one command read by  *)
(* main, or one line read by handle_recover; the prompts of handle_split   *)
(* repeat until their input is in range, so the action takes the accepted  *)
(* values.  The wiping of _last_secret leaves nothing behind and is not    *)
(* modelled.                                                               *)

\* lines typed at the recover prompt: the empty and the blank line, three
\* one-byte shares ('A' at x = 1, 2 and 258), a share text without y values,
\* a share text with x = 0, and a text that is no share
CliLines ==
    {<<>>, <<" ">>,
     <<"1", ":", "A", "E", "E", "=">>,
     <<"2", ":", "A", "E", "E", "=">>,
     <<"2", "5", "8", ":", "A", "E", "E", "=">>,
     <<"3", ":">>,
     <<"0", ":", "A", "A", "A", "=">>,
     <<"x">>}

\* secrets typed at the split prompt ("H", "Hi" and the non-ASCII 'e acute')
\* and the coefficients drawn for them
CliSecrets == {<<72>>, <<72, 105>>, <<233>>}
CliRands == {1, PRIME - 1} \cap RandBelow(PRIME)

\* `not share`: None and the empty list are falsy
Falsy(r) == ~r.ok \/ r.val = <<>>

InitCLI ==
    /\ pc = "cli"
    /\ mode = "menu"
    /\ line = <<>>
    /\ cli_shares = <<>>
    /\ out = Printed("Blob CLI", <<>>)
    /\ CodecIdle /\ SerialIdle /\ RecoverIdle /\ SplitIdle

\* "split": handle_split with n in 2..PRIME-1, k in 2..n and a non-empty
\* secret, as input_n, input_k and input_nonempty return them
CmdSplit ==
    /\ mode = "menu"
    /\ \E nn \in 2..MaxN, kk \in 2..MaxN, s \in CliSecrets :
          /\ nn <= PRIME - 1 /\ kk <= nn
          /\ Draws(s, kk) <= MaxDraws
          /\ \E rnds \in [1..Len(s) -> [1..(kk - 1) -> CliRands]] :
                LET r == encode_secret(s, nn, rnds)
                IN  out' = IF r.ok
                           THEN Printed("Shares (x:base64):",
                                        [i \in DOMAIN r.val |-> share_to_str(r.val[i]).val])
                           ELSE Printed("[!] Error: could not encode secret.", <<>>)
    /\ UNCHANGED <<pc, mode, line, cli_shares>>
    /\ UNCHANGED <<secret, n, k, shares, picked, decoded>>
    /\ UNCHANGED <<serialVars, recoverVars, splitVars>>

\* "recover": handle_recover starts with an empty list of shares
CmdRecover ==
    /\ mode = "menu"
    /\ mode' = "recover"
    /\ cli_shares' = <<>>
    /\ out' = Printed("Enter shares (x:base64), empty line to finish:", <<>>)
    /\ UNCHANGED <<pc, line>>
    /\ UNCHANGED <<secret, n, k, shares, picked, decoded>>
    /\ UNCHANGED <<serialVars, recoverVars, splitVars>>

\* the end of handle_recover after the empty line: validate, decode, print;
\* an exception of validate_shares is caught nowhere and ends the process
RecoverResult(shs) ==
    LET v == validate_shares(shs)
        d == decode_secret(shs)
    IN  IF ~v.ok
            THEN Printed("Traceback (most recent call last):", <<>>)
        ELSE IF ~v.val[1]
            THEN Printed("[!] Share validation error: " \o v.val[2], <<>>)
        ELSE IF d.ok /\ IsAscii(d.val)
            THEN Printed("Recovered secret:", d.val)
        ELSE Printed("[!] Error: could not recover secret.", <<>>)

\* one line read by handle_recover: the empty line ends the input, a line
\* that is no share ends the command, any other line is kept
RecoverLine ==
    /\ mode = "recover"
    /\ \E l \in CliLines :
          /\ line' = l
          /\ IF Strip(l) = <<>>
             THEN /\ out' = RecoverResult(cli_shares)
                  /\ cli_shares' = <<>>
                  /\ mode' = "menu"
             ELSE IF Falsy(str_to_share(Strip(l)))
             THEN /\ out' = Printed("[!] Invalid share format.", <<>>)
                  /\ cli_shares' = <<>>
                  /\ mode' = "menu"
             ELSE /\ Len(cli_shares) < MaxShares
                  /\ cli_shares' = Append(cli_shares, str_to_share(Strip(l)).val)
                  /\ UNCHANGED <<mode, out>>
    /\ UNCHANGED pc
    /\ UNCHANGED <<secret, n, k, shares, picked, decoded>>
    /\ UNCHANGED <<serialVars, recoverVars, splitVars>>

\* "help" and any unknown command print and return to the prompt
CmdOther ==
    /\ mode = "menu"
    /\ out' \in {Printed("[ Usage ]", <<>>),
                 Printed("  [!] Unknown command. Type 'help'.", <<>>)}
    /\ UNCHANGED <<pc, mode, line, cli_shares>>
    /\ UNCHANGED <<secret, n, k, shares, picked, decoded>>
    /\ UNCHANGED <<serialVars, recoverVars, splitVars>>

\* "exit", Ctrl-C or end of input at any prompt: secure_exit
SecureExit ==
    /\ mode \in {"menu", "recover"}
    /\ mode' = "exited"
    /\ cli_shares' = <<>>
    /\ out' = Printed("Exiting...", <<>>)
    /\ UNCHANGED <<pc, line>>
    /\ UNCHANGED <<secret, n, k, shares, picked, decoded>>
    /\ UNCHANGED <<serialVars, recoverVars, splitVars>>

NextCLI == CmdSplit \/ CmdRecover \/ RecoverLine \/ CmdOther \/ SecureExit

SpecCLI == InitCLI /\ [][NextCLI]_vars

\* C9: in the recover command a line that str_to_share rejects is not fatal
\* to the input session: the CLI reports it, keeps the shares collected so
\* far and goes on reading share lines.
C9_InvalidLineKeepsSession ==
    [][(/\ mode = "recover"
        /\ mode' # "exited"
        /\ Strip(line') # <<>>
        /\ Falsy(str_to_share(Strip(line'))))
       => (/\ mode' = "recover"
           /\ cli_shares' = cli_shares
           /\ out'.msg = "[!] Invalid share format.")]_vars

====
